---- MODULE Spec2Model ----
(***************************************************************************)
(* Firework: a work queue on a shared ordered store.                       *)
(*                                                                         *)
(* Worker  (claim protocol and run loop)  src/specs/Queue-spec.js:53-242   *)
(* Runner  (worker pool)                  src/modules/runner.js            *)
(* Queue   (pendingJobs partition)        src/modules/Queue.js             *)
(*                                                                         *)
(* Every callback of the program is one action.  The store is modelled by  *)
(* its contract: push keys are generated in increasing order, the query    *)
(* limitToFirst(1) notifies a subscriber of the first pending child, and a *)
(* transaction is a request (res = "sent"), an atomic server step          *)
(* (TxCommit / TxFail) and the delivery of onComplete (TxComplete).        *)
(* The user job function answers asynchronously (FinishJob).               *)
(***************************************************************************)
EXTENDS Integers, Sequences, FiniteSets, TLC

\* ---------------------------------------------------------------- bounds
NumWorkers == 2       \* standalone workers of specification Spec
MaxJobs == 2          \* addJob calls in specification Spec
MaxWorkerID == 2      \* cap of Runner.workerID in specification SpecRunner
MaxNumWorkers == 2    \* largest numWorkers / howMany argument given to the Runner
RunnerMaxJobs == 1    \* addJob calls in specification SpecRunner
QueueWorkers == 1     \* standalone workers of specification SpecQueue
QueueMaxJobs == 1     \* addJob calls in specification SpecQueue
MaxUncaught == 1      \* record writes that the store rejects
MaxExtraCalls == 1    \* calls of a performJob callback after the first one
MaxRetries == 2       \* retryFailedJobs calls
QueueRetries == 1     \* retryFailedJobs calls next to all the other operations
MaxKeys == 3          \* children of a store that is filled at the start
MaxPriority == 3      \* priorities of the children of pendingJobs

Max(a, b) == IF a > b THEN a ELSE b

WorkerIds == 1..Max(NumWorkers, MaxWorkerID)
Keys == 1..Max(Max(MaxJobs, RunnerMaxJobs), MaxKeys)
NoKey == 0
NoPriority == 0       \* a child written without priority
NoTime == 0           \* a timestamp property that is not set
NoError == "none"     \* no error: the argument of finishJob on success
CallbackError == "error"     \* an error given to the performJob callback
Exception == "exception"     \* an exception thrown by performJob
\* a job: the caller's payload (my) and the reserved properties _key,
\* _startedAt, _failedAt, _succeededAt and _error; NoJob is null, and a
\* property of a job that has the value it has in NoJob is not set
NoJob == [my |-> 0, key |-> NoKey, startedAt |-> NoTime, failedAt |-> NoTime,
          succeededAt |-> NoTime, error |-> NoError]
EnvCallback == 0      \* a stop callback given by the caller of Worker.stop
NotCalled == [called |-> FALSE, arg |-> <<>>]
Called(arg) == [called |-> TRUE, arg |-> arg]

VARIABLES
  pendingJobs,   \* Queue.pendingJobs: key -> job (NoJob: no child at that key)
  priority,      \* key -> the priority that the child of pendingJobs was written with
  pushCount,     \* number of keys generated by pendingJobs.push()
  constructed,   \* the Worker objects that exist
  query,         \* Worker._query is set (the subscription is live)
  subscriptions, \* number of child_added listeners the worker has on the store
  window,        \* per worker: the child the store last sent to its child_added listener
  nextSnapshot,  \* Worker._nextSnapshot (key of the snapshot, NoKey: null)
  isBusy,        \* Worker.isBusy
  failureCount,  \* Worker.failureCount
  successCount,  \* Worker.successCount
  idleOnce,      \* listeners registered with once('idle', callback)
  txs,           \* transactions in flight (closures of _tryToWork)
  performing,    \* closures of startJob whose alreadyCalled is false
  workers,       \* Runner.workers
  workerID,      \* Runner.workerID
  shrinks,       \* closures of setNumberOfWorkers on a shrink, by first removed worker
  trace,         \* per worker: events emitted, stop() calls, stop callbacks fired
  callback,      \* the call of a setNumberOfWorkers callback made by the last step
  startedJobs,   \* Queue.startedJobs: key -> record (NoJob: no child at that key)
  uncaught,      \* number of errors thrown by handleError
  finished,      \* closures of startJob whose alreadyCalled is true
  consoleErrors, \* number of console.error calls of those closures
  retryWrites,   \* keys whose addJob of _retryJob is waiting for its completion
  retried        \* the numbers given to the callbacks of retryFailedJobs

workerVars == <<constructed, query, subscriptions, window, nextSnapshot, isBusy, failureCount,
                successCount, idleOnce, txs, performing, trace>>
runnerVars == <<workers, workerID, shrinks>>
queueVars == <<startedJobs, uncaught, finished, consoleErrors, retryWrites,
               retried>>
vars == <<pendingJobs, priority, pushCount, constructed, query, subscriptions, window, nextSnapshot, isBusy,
          failureCount, successCount, idleOnce, txs, performing, workers,
          workerID, shrinks, trace, callback, startedJobs, uncaught,
          finished, consoleErrors, retryWrites, retried>>

\* ------------------------------------------------------------ helpers
Range(s) == {s[i] : i \in 1..Len(s)}

\* an event on a job with the error given to its listeners
EvError(e, k, error) == [e |-> e, key |-> k, error |-> error]

Ev(e, k) == EvError(e, k, NoError)

\* the mark of a stop(callback) call: key 1 when a callback was given
StopEv(hasCallback) == Ev("stop", IF hasCallback THEN 1 ELSE 0)

Count(s, e) == Cardinality({i \in 1..Len(s) : s[i].e = e})

CountOf(s, e, k) == Cardinality({i \in 1..Len(s) : s[i] = Ev(e, k)})

\* the order of the children of a location: by priority, the children
\* without priority first, and by key among equal priorities
Before(j, k) == priority[j] < priority[k] \/ (priority[j] = priority[k] /\ j < k)

\* the first child of pendingJobs, NoKey when there is none
FirstPending_ByKey ==
  IF \E k \in Keys : pendingJobs[k] # NoJob
  THEN CHOOSE k \in Keys : /\ pendingJobs[k] # NoJob
                           /\ \A j \in Keys : pendingJobs[j] # NoJob => k <= j
  ELSE NoKey

FirstPending ==
  IF \E k \in Keys : pendingJobs[k] # NoJob
  THEN CHOOSE k \in Keys : /\ pendingJobs[k] # NoJob
                           /\ \A j \in Keys : pendingJobs[j] # NoJob => ~Before(j, k)
  ELSE NoKey

\* ------------------------------------------------------------- Worker
\* the guard of _tryToWork
CanTryToWork_NoBusyCheck(snap, busy) == snap # NoKey

CanTryToWork(snap, busy) == snap # NoKey /\ ~busy

\* _tryToWork(previousJob): what it leaves in isBusy and _nextSnapshot and
\* the transaction it issues
TryToWork(w, snap, busy, previousJob) ==
  IF CanTryToWork(snap, busy)
  THEN [isBusy |-> TRUE, nextSnapshot |-> NoKey, idle |-> FALSE,
        newTx |-> {[w |-> w, key |-> snap, res |-> "sent", job |-> NoJob,
                    previousJob |-> previousJob]}]
  ELSE [isBusy |-> busy, nextSnapshot |-> snap, idle |-> FALSE, newTx |-> {}]

\* _getNextJob(previousJob)
GetNextJob_NoRetry(w, snap, previousJob) ==
  [isBusy |-> FALSE, nextSnapshot |-> snap, idle |-> previousJob # NoJob,
   newTx |-> {}]

GetNextJob_StayBusy(w, snap, previousJob) ==
  IF snap # NoKey
  THEN TryToWork(w, snap, FALSE, previousJob)
  ELSE [isBusy |-> TRUE, nextSnapshot |-> snap, idle |-> previousJob # NoJob,
        newTx |-> {}]

GetNextJob_AlwaysIdle(w, snap, previousJob) ==
  IF snap # NoKey
  THEN TryToWork(w, snap, FALSE, previousJob)
  ELSE [isBusy |-> FALSE, nextSnapshot |-> snap, idle |-> TRUE, newTx |-> {}]

GetNextJob(w, snap, previousJob) ==
  IF snap # NoKey
  THEN TryToWork(w, snap, FALSE, previousJob)
  ELSE [isBusy |-> FALSE, nextSnapshot |-> snap, idle |-> previousJob # NoJob,
        newTx |-> {}]

\* workerStopped of a shrink: count, and call the callback at the last one
WorkerStoppedDone_First(numStopped, removed) == numStopped >= 1

WorkerStoppedDone(numStopped, removed) == numStopped = Len(removed)

WorkerStopped(sh, id) ==
  LET n == sh[id].numStoppedWorkers + 1
      done == WorkerStoppedDone(n, sh[id].removedWorkers) /\ sh[id].hasCallback
  IN [sh EXCEPT ![id].numStoppedWorkers = n,
                ![id].called = @ + (IF done THEN 1 ELSE 0)]

\* invoke stop callbacks in order
RECURSIVE FireStopped(_, _)
FireStopped(cbs, sh) ==
  IF cbs = <<>> THEN sh
  ELSE FireStopped(Tail(cbs),
                   IF Head(cbs) = EnvCallback THEN sh
                   ELSE WorkerStopped(sh, Head(cbs)))

\* the callback(removedWorkers) call made while sh became sh2, if any
CallbackOf(sh, sh2) ==
  IF \E id \in DOMAIN sh : sh2[id].called > sh[id].called
  THEN Called(sh2[CHOOSE id \in DOMAIN sh : sh2[id].called > sh[id].called].removedWorkers)
  ELSE NotCalled

StoppedEvents(cbs) == [i \in 1..Len(cbs) |-> Ev("onStopped", NoKey)]

\* the end of finishJob and of a lost claim: _getNextJob and, when it emits
\* idle, the once-listeners of idle
AfterGetNextJob(w, r, tr, txbase) ==
  /\ isBusy' = [isBusy EXCEPT ![w] = r.isBusy]
  /\ nextSnapshot' = [nextSnapshot EXCEPT ![w] = r.nextSnapshot]
  /\ txs' = txbase \cup r.newTx
  /\ IF r.idle
     THEN /\ trace' = [trace EXCEPT ![w] =
                         tr \o <<Ev("idle", NoKey)>> \o StoppedEvents(idleOnce[w])]
          /\ idleOnce' = [idleOnce EXCEPT ![w] = <<>>]
          /\ shrinks' = FireStopped(idleOnce[w], shrinks)
          /\ callback' = CallbackOf(shrinks, FireStopped(idleOnce[w], shrinks))
     ELSE /\ trace' = [trace EXCEPT ![w] = tr]
          /\ callback' = NotCalled
          /\ UNCHANGED <<idleOnce, shrinks>>

\* Worker.start()
Start_NoGuard(w) ==
  /\ w \in constructed
  /\ Count(trace[w], "stop") = 0
  /\ query' = [query EXCEPT ![w] = TRUE]
  /\ UNCHANGED window
  /\ subscriptions' = [subscriptions EXCEPT ![w] = @ + 1]
  /\ callback' = NotCalled
  /\ UNCHANGED <<pendingJobs, priority, pushCount, constructed, nextSnapshot, isBusy,
                 failureCount, successCount, idleOnce, txs, performing,
                 trace, runnerVars>>
  /\ UNCHANGED queueVars

Start(w) ==
  /\ w \in constructed
  /\ Count(trace[w], "stop") = 0
  /\ IF query[w]
     THEN UNCHANGED <<query, subscriptions, window>>
     ELSE /\ query' = [query EXCEPT ![w] = TRUE]
          /\ UNCHANGED window
          /\ subscriptions' = [subscriptions EXCEPT ![w] = @ + 1]
  /\ callback' = NotCalled
  /\ UNCHANGED <<pendingJobs, priority, pushCount, constructed, nextSnapshot, isBusy,
                 failureCount, successCount, idleOnce, txs, performing,
                 trace, runnerVars>>
  /\ UNCHANGED queueVars

\* whether stop invokes the callback at once
StopNow_Always(busy) == TRUE

StopNow_Never(busy) == FALSE

StopNow(busy) == ~busy

\* Worker.stop(callback) called by the owner of a standalone worker
Stop(w, hasCallback) ==
  /\ w \in constructed
  /\ Count(trace[w], "stop") = 0
  /\ query' = [query EXCEPT ![w] = FALSE]
  /\ UNCHANGED window
  /\ subscriptions' = [subscriptions EXCEPT ![w] = IF query[w] THEN @ - 1 ELSE @]
  /\ IF ~hasCallback
     THEN /\ trace' = [trace EXCEPT ![w] = @ \o <<StopEv(FALSE)>>]
          /\ UNCHANGED idleOnce
     ELSE IF StopNow(isBusy[w])
     THEN /\ trace' = [trace EXCEPT ![w] =
                         @ \o <<StopEv(TRUE), Ev("onStopped", NoKey)>>]
          /\ UNCHANGED idleOnce
     ELSE /\ trace' = [trace EXCEPT ![w] = @ \o <<StopEv(TRUE)>>]
          /\ idleOnce' = [idleOnce EXCEPT ![w] = Append(@, EnvCallback)]
  /\ callback' = NotCalled
  /\ UNCHANGED <<pendingJobs, priority, pushCount, constructed, nextSnapshot, isBusy,
                 failureCount, successCount, txs, performing, runnerVars>>
  /\ UNCHANGED queueVars

\* the child_added handler of start(): the store notifies the first child
Notify(w) ==
  /\ w \in constructed
  /\ query[w]
  /\ FirstPending # NoKey
  /\ LET r == TryToWork(w, FirstPending, isBusy[w], NoJob)
     IN /\ isBusy' = [isBusy EXCEPT ![w] = r.isBusy]
        /\ nextSnapshot' = [nextSnapshot EXCEPT ![w] = r.nextSnapshot]
        /\ txs' = txs \cup r.newTx
  /\ callback' = NotCalled
  /\ UNCHANGED <<pendingJobs, priority, pushCount, constructed, query, subscriptions, window, failureCount,
                 successCount, idleOnce, performing, trace, runnerVars>>
  /\ UNCHANGED queueVars

\* the child_added handler of start(), for the one event the store owes the
\* listener: the first child of pendingJobs is not the child it sent last
ChildAdded(w) ==
  /\ w \in constructed
  /\ query[w]
  /\ FirstPending # NoKey
  /\ window[w] # FirstPending
  /\ window' = [window EXCEPT ![w] = FirstPending]
  /\ LET r == TryToWork(w, FirstPending, isBusy[w], NoJob)
     IN /\ isBusy' = [isBusy EXCEPT ![w] = r.isBusy]
        /\ nextSnapshot' = [nextSnapshot EXCEPT ![w] = r.nextSnapshot]
        /\ txs' = txs \cup r.newTx
  /\ callback' = NotCalled
  /\ UNCHANGED <<pendingJobs, priority, pushCount, constructed, query, subscriptions,
                 failureCount, successCount, idleOnce, performing, trace, runnerVars>>
  /\ UNCHANGED queueVars

\* claimJob(job), the update function of the transaction: the value it returns
ClaimJob_Keep(job) == job

ClaimJob(job) == NoJob

\* the server runs claimJob on the current value and commits what it returns;
\* res is what onComplete will find in nextJob
TxCommit(t) ==
  /\ t \in txs
  /\ t.res = "sent"
  /\ pendingJobs' = [pendingJobs EXCEPT ![t.key] = ClaimJob(pendingJobs[t.key])]
  /\ UNCHANGED priority
  /\ txs' = (txs \ {t}) \cup
            {[t EXCEPT !.res = IF pendingJobs[t.key] # NoJob THEN "job" ELSE "null",
                       !.job = pendingJobs[t.key]]}
  /\ callback' = NotCalled
  /\ UNCHANGED <<pushCount, constructed, query, subscriptions, window, nextSnapshot, isBusy,
                 failureCount, successCount, idleOnce, performing, trace,
                 runnerVars>>
  /\ UNCHANGED queueVars

\* the store fails the transaction
TxFail(t) ==
  /\ t \in txs
  /\ t.res = "sent"
  /\ txs' = (txs \ {t}) \cup {[t EXCEPT !.res = "error"]}
  /\ callback' = NotCalled
  /\ UNCHANGED <<pendingJobs, priority, pushCount, constructed, query, subscriptions, window, nextSnapshot,
                 isBusy, failureCount, successCount, idleOnce, performing,
                 trace, runnerVars>>
  /\ UNCHANGED queueVars

\* Queue.addJob(job) for a job without _key
AddJob_SameKey ==
  /\ pushCount < MaxJobs
  /\ pushCount' = pushCount + 1
  /\ pendingJobs' = [pendingJobs EXCEPT ![1] = [NoJob EXCEPT !.my = pushCount + 1]]
  /\ priority' = [priority EXCEPT ![1] = NoPriority]
  /\ callback' = NotCalled
  /\ UNCHANGED <<workerVars, runnerVars, queueVars>>

AddJob ==
  /\ pushCount < MaxJobs
  /\ pushCount' = pushCount + 1
  /\ pendingJobs' = [pendingJobs EXCEPT ![pushCount + 1] =
                       [NoJob EXCEPT !.my = pushCount + 1]]
  /\ priority' = [priority EXCEPT ![pushCount + 1] = NoPriority]
  /\ callback' = NotCalled
  /\ UNCHANGED <<workerVars, runnerVars, queueVars>>

\* ------------------------------------------------------------- Runner
\* workers.splice(index, 1)
RemoveAt_Nothing(s, i) == s

RemoveAt(s, i) == SubSeq(s, 1, i - 1) \o SubSeq(s, i + 1, Len(s))

IndexOf_NotFound(s, x) == 0

IndexOf(s, x) == IF x \in Range(s) THEN CHOOSE i \in 1..Len(s) : s[i] = x ELSE 0

Min(a, b) == IF a < b THEN a ELSE b

\* workers.splice(0, Math.abs(change)): the removed workers, oldest first
RemovedWorkers_Newest(pool, change) ==
  SubSeq(pool, Len(pool) - Min(0 - change, Len(pool)) + 1, Len(pool))

RemovedWorkers(pool, change) == SubSeq(pool, 1, Min(0 - change, Len(pool)))

\* what splice leaves in the pool
RemainingWorkers(pool, change) ==
  LET removed == RemovedWorkers(pool, change)
  IN SelectSeq(pool, LAMBDA w : w \notin Range(removed))

\* the loop of setNumberOfWorkers that creates and starts the new workers
NewWorkers_OneLess(wid, change) == [i \in 1..(change - 1) |-> wid + i]

NewWorkers(wid, change) == [i \in 1..change |-> wid + i]

\* setNumberOfWorkers on the pool `pool` when change >= 0
Grow_Prepend(pool, change) ==
  LET newWorkers == NewWorkers(workerID, change)
  IN /\ workerID + change <= MaxWorkerID
     /\ workerID' = workerID + change
     /\ constructed' = constructed \cup {workerID + i : i \in 1..change}
     /\ query' = [w \in WorkerIds |->
                    IF w \in {workerID + i : i \in 1..change} THEN TRUE ELSE query[w]]
     /\ UNCHANGED window
     /\ subscriptions' = [w \in WorkerIds |->
                            IF w \in {workerID + i : i \in 1..change} THEN 1
                            ELSE subscriptions[w]]
     /\ workers' = newWorkers \o pool

Grow(pool, change) ==
  LET newWorkers == NewWorkers(workerID, change)
  IN /\ workerID + change <= MaxWorkerID
     /\ workerID' = workerID + change
     /\ constructed' = constructed \cup {workerID + i : i \in 1..change}
     /\ query' = [w \in WorkerIds |->
                    IF w \in {workerID + i : i \in 1..change} THEN TRUE ELSE query[w]]
     /\ UNCHANGED window
     /\ subscriptions' = [w \in WorkerIds |->
                            IF w \in {workerID + i : i \in 1..change} THEN 1
                            ELSE subscriptions[w]]
     /\ workers' = pool \o newWorkers

\* setNumberOfWorkers when change < 0: splice and stop the removed workers
Shrink(change, hasCallback) ==
  LET removedWorkers == RemovedWorkers(workers, change)
      removed == Range(removedWorkers)
      now == {w \in removed : StopNow(isBusy[w])}
      id == removedWorkers[1]
      sh0 == [w \in (DOMAIN shrinks) \cup {id} |->
                IF w = id
                THEN [removedWorkers |-> removedWorkers, numStoppedWorkers |-> 0,
                      hasCallback |-> hasCallback, called |-> 0]
                ELSE shrinks[w]]
      nowSeq == SelectSeq(removedWorkers, LAMBDA w : w \in now)
      sh1 == FireStopped([i \in 1..Len(nowSeq) |-> id], sh0)
  IN /\ workers' = RemainingWorkers(workers, change)
     /\ query' = [w \in WorkerIds |-> IF w \in removed THEN FALSE ELSE query[w]]
     /\ UNCHANGED window
     /\ subscriptions' = [w \in WorkerIds |->
                            IF w \in removed /\ query[w] THEN subscriptions[w] - 1
                            ELSE subscriptions[w]]
     /\ idleOnce' = [w \in WorkerIds |->
                       IF w \in removed \ now THEN Append(idleOnce[w], id)
                       ELSE idleOnce[w]]
     /\ trace' = [w \in WorkerIds |->
                    IF w \in now
                    THEN trace[w] \o <<StopEv(TRUE), Ev("onStopped", NoKey)>>
                    ELSE IF w \in removed
                    THEN trace[w] \o <<StopEv(TRUE)>>
                    ELSE trace[w]]
     /\ shrinks' = sh1
     /\ callback' = IF sh1[id].called > 0 THEN Called(removedWorkers) ELSE NotCalled

\* Runner.setNumberOfWorkers(numWorkers, callback), also reached through
\* incrementWorkers, decrementWorkers and stopAllWorkers
SetNumberOfWorkers(numWorkers, hasCallback) ==
  LET n == Max(0, numWorkers)
      change == n - Len(workers)
  IN /\ IF change < 0
        THEN /\ Shrink(change, hasCallback)
             /\ UNCHANGED <<workerID, constructed>>
        ELSE /\ Grow(workers, change)
             /\ callback' = IF hasCallback
                             THEN Called(NewWorkers(workerID, change)) ELSE NotCalled
             /\ UNCHANGED <<idleOnce, trace, shrinks>>
     /\ UNCHANGED <<pendingJobs, priority, pushCount, nextSnapshot, isBusy, failureCount,
                    successCount, txs, performing, queueVars>>

\* the howMany argument of incrementWorkers and decrementWorkers: not given
\* (nothing, or the callback in its place, which is replaced by null), or a
\* number
Omitted == <<>>

Given(k) == <<k>>

HowManyArgs == {Omitted} \cup {Given(k) : k \in 0..MaxNumWorkers}

\* howMany || 1
HowMany(howMany) ==
  IF howMany = Omitted THEN 1
  ELSE IF howMany[1] = 0 THEN 1 ELSE howMany[1]

IncrementWorkers(howMany, hasCallback) ==
  SetNumberOfWorkers(Len(workers) + HowMany(howMany), hasCallback)

DecrementWorkers(howMany, hasCallback) ==
  SetNumberOfWorkers(Len(workers) - HowMany(howMany), hasCallback)

StopAllWorkers(hasCallback) ==
  SetNumberOfWorkers(0, hasCallback)

\* the loop of setNumberOfWorkers when the failAt-th call of createWorker
\* throws because the factory returned no Worker: workerID was incremented
\* for the call, the workers of the earlier calls are created and started,
\* and the push into the pool, the callback and the rest are not reached
GrowThrows(pool, change, failAt) ==
  /\ failAt \in 1..change
  /\ workerID + failAt <= MaxWorkerID
  /\ workerID' = workerID + failAt
  /\ constructed' = constructed \cup {workerID + i : i \in 1..(failAt - 1)}
  /\ query' = [w \in WorkerIds |->
                 IF w \in {workerID + i : i \in 1..(failAt - 1)} THEN TRUE
                 ELSE query[w]]
  /\ UNCHANGED window
  /\ subscriptions' = [w \in WorkerIds |->
                         IF w \in {workerID + i : i \in 1..(failAt - 1)} THEN 1
                         ELSE subscriptions[w]]
  /\ workers' = pool

\* Runner.setNumberOfWorkers(numWorkers, callback) that grows the pool and
\* ends with the exception of createWorker
SetNumberOfWorkersThrows(numWorkers, failAt) ==
  /\ GrowThrows(workers, Max(0, numWorkers) - Len(workers), failAt)
  /\ callback' = NotCalled
  /\ UNCHANGED <<idleOnce, trace, shrinks>>
  /\ UNCHANGED <<pendingJobs, priority, pushCount, nextSnapshot, isBusy, failureCount,
                 successCount, txs, performing, queueVars>>

\* onComplete of a transaction that the store failed, for a member of the
\* pool, when the createWorker of replaceWorker throws: the member was
\* spliced out before incrementWorkers(1)
TxCompleteThrows(t) ==
  /\ t \in txs
  /\ t.res = "error"
  /\ IndexOf(workers, t.w) # 0
  /\ trace' = [trace EXCEPT ![t.w] = @ \o <<Ev("error", t.key)>>]
  /\ txs' = txs \ {t}
  /\ GrowThrows(RemoveAt(workers, IndexOf(workers, t.w)), HowMany(Given(1)), 1)
  /\ callback' = NotCalled
  /\ UNCHANGED <<pendingJobs, priority, pushCount, nextSnapshot, isBusy, failureCount,
                 successCount, idleOnce, performing, shrinks, queueVars>>

\* Runner.replaceWorker(worker), the listener of the worker's error event
ReplaceWorker_Always(w) ==
  Grow(SelectSeq(workers, LAMBDA x : x # w), HowMany(Given(1)))

ReplaceWorker(w) ==
  IF IndexOf(workers, w) # 0
  THEN Grow(RemoveAt(workers, IndexOf(workers, w)), HowMany(Given(1)))
  ELSE UNCHANGED <<workers, workerID, constructed, query, subscriptions, window>>

\* -------------------------------------------------------------- Queue
\* the reserved timestamp properties of a job
TimeProperties == {"startedAt", "failedAt", "succeededAt"}

\* mergeProperties(target, properties): every property that is set in
\* properties is written over the one of target
MergeProperties(target, properties) ==
  [f \in DOMAIN target |->
     IF properties[f] # NoJob[f] THEN properties[f] ELSE target[f]]

\* ref.update(value) on a location that holds record: the children named in
\* value are written, the other children stay
Update(record, value) ==
  [f \in DOMAIN record |-> IF value[f] # NoJob[f] THEN value[f] ELSE record[f]]

RECURSIVE Latest(_, _)
Latest(job, S) ==
  IF S = {} THEN NoTime
  ELSE LET f == CHOOSE x \in S : TRUE
       IN Max(job[f], Latest(job, S \ {f}))

\* Firebase.ServerValue.TIMESTAMP in a write of job into record: the time of
\* the server at the write, which is later than every time already written
ServerTimestamp(record, job) ==
  1 + Max(Latest(record, TimeProperties), Latest(job, TimeProperties))

\* error.toString()
ErrorToString(error) ==
  IF error = Exception THEN "Error: exception" ELSE "Error: error"

\* the value that the start listener of setupWorker writes
StartedValue(record, job) ==
  MergeProperties([NoJob EXCEPT !.startedAt = ServerTimestamp(record, job)], job)

\* the value that the failure listener of setupWorker writes
FailedValue(record, job, error) ==
  [MergeProperties([NoJob EXCEPT !.failedAt = ServerTimestamp(record, job)], job)
     EXCEPT !.error = IF error # NoError THEN ErrorToString(error) ELSE @]

\* the value that the success listener of setupWorker writes
SucceededValue(record, job) ==
  MergeProperties([NoJob EXCEPT !.succeededAt = ServerTimestamp(record, job)], job)

\* startedJobs.child(job._key).update(value, handleError): the store takes the
\* write, or it rejects it and handleError throws the error
RecordWrite_WritesAnyway(key, value, recordOk) ==
  /\ startedJobs' = [startedJobs EXCEPT ![key] = Update(@, value)]
  /\ IF recordOk THEN UNCHANGED uncaught
     ELSE uncaught < MaxUncaught /\ uncaught' = uncaught + 1

RecordWrite(key, value, recordOk) ==
  IF recordOk
  THEN /\ startedJobs' = [startedJobs EXCEPT ![key] = Update(@, value)]
       /\ UNCHANGED uncaught
  ELSE /\ uncaught < MaxUncaught
       /\ uncaught' = uncaught + 1
       /\ UNCHANGED startedJobs

IsFailedJob_Never(object) == FALSE

\* isFailedJob(object)
IsFailedJob(object) ==
  object # NoJob /\ object.failedAt # NoTime /\ ~(object.succeededAt # NoTime)

\* --------------------------------------------- Worker: claim completions
\* onComplete of the transaction of _tryToWork, with the listeners of the
\* start event; recordOk: the store takes the write of the start listener
TxComplete(t, recordOk) ==
  /\ t \in txs
  /\ t.res # "sent"
  /\ IF t.res = "error"
     THEN /\ recordOk
          /\ trace' = [trace EXCEPT ![t.w] = @ \o <<Ev("error", t.key)>>]
          /\ txs' = txs \ {t}
          /\ ReplaceWorker(t.w)
          /\ callback' = NotCalled
          /\ UNCHANGED <<isBusy, nextSnapshot, idleOnce, shrinks, performing,
                         startedJobs, uncaught>>
     ELSE IF t.res = "job"
     THEN LET nextJob == IF t.job.key = NoKey
                         THEN [t.job EXCEPT !.key = t.key] ELSE t.job
          IN /\ trace' = [trace EXCEPT ![t.w] = @ \o <<Ev("start", nextJob.key)>>]
             /\ RecordWrite(nextJob.key,
                            StartedValue(startedJobs[nextJob.key], nextJob), recordOk)
             /\ performing' = performing \cup {[w |-> t.w, job |-> nextJob]}
             /\ txs' = txs \ {t}
             /\ callback' = NotCalled
             /\ UNCHANGED <<isBusy, nextSnapshot, idleOnce, shrinks, workers,
                            workerID, constructed, query, subscriptions, window>>
     ELSE /\ recordOk
          /\ AfterGetNextJob(t.w, GetNextJob(t.w, nextSnapshot[t.w], t.previousJob),
                             trace[t.w], txs \ {t})
          /\ UNCHANGED <<performing, workers, workerID, constructed, query, subscriptions, window,
                         startedJobs, uncaught>>
  /\ UNCHANGED <<pendingJobs, priority, pushCount, failureCount, successCount, finished,
                 consoleErrors, retryWrites, retried>>

\* the first call of the closure finishJob of startJob, by performJob through
\* its callback (error is NoError or CallbackError) or by the catch clause
\* when performJob throws (error is Exception): Worker.finishJob(job, error)
\* with the listeners of failure and success; recordOk: the store takes the
\* write of the listener
FinishJob(c, error, recordOk) ==
  /\ c \in performing
  /\ performing' = performing \ {c}
  /\ finished' = finished \cup {c}
  /\ IF error # NoError
     THEN /\ failureCount' = [failureCount EXCEPT ![c.w] = @ + 1]
          /\ RecordWrite(c.job.key,
                         FailedValue(startedJobs[c.job.key], c.job, error), recordOk)
          /\ UNCHANGED successCount
     ELSE /\ successCount' = [successCount EXCEPT ![c.w] = @ + 1]
          /\ RecordWrite(c.job.key,
                         SucceededValue(startedJobs[c.job.key], c.job), recordOk)
          /\ UNCHANGED failureCount
  /\ AfterGetNextJob(c.w, GetNextJob(c.w, nextSnapshot[c.w], c.job),
                     trace[c.w] \o
                       <<IF error # NoError
                         THEN EvError("failure", c.job.key, error)
                         ELSE Ev("success", c.job.key),
                         Ev("finish", c.job.key)>>,
                     txs)
  /\ UNCHANGED <<pendingJobs, priority, pushCount, constructed, query, subscriptions, window, workers, workerID,
                 consoleErrors, retryWrites, retried>>

\* a later call of the closure finishJob of startJob, by performJob through
\* its callback or by the catch clause: alreadyCalled is true
FinishJobAgain_NoGuard(c) ==
  /\ c \in finished
  /\ consoleErrors < MaxExtraCalls
  /\ consoleErrors' = consoleErrors + 1
  /\ successCount' = [successCount EXCEPT ![c.w] = @ + 1]
  /\ trace' = [trace EXCEPT ![c.w] =
                 @ \o <<Ev("success", c.job.key), Ev("finish", c.job.key)>>]
  /\ callback' = NotCalled
  /\ UNCHANGED <<pendingJobs, priority, pushCount, constructed, query, subscriptions, window, nextSnapshot,
                 isBusy, failureCount, idleOnce, txs, performing, runnerVars,
                 startedJobs, uncaught, finished, retryWrites, retried>>

FinishJobAgain(c) ==
  /\ c \in finished
  /\ consoleErrors < MaxExtraCalls
  /\ consoleErrors' = consoleErrors + 1
  /\ callback' = NotCalled
  /\ UNCHANGED <<pendingJobs, priority, pushCount, workerVars, runnerVars, startedJobs,
                 uncaught, finished, retryWrites, retried>>

\* the failed children of startedJobs in key order
RECURSIVE FailedJobs(_)
FailedJobs(k) ==
  IF k \notin Keys THEN <<>>
  ELSE (IF IsFailedJob(startedJobs[k]) THEN <<k>> ELSE <<>>) \o FailedJobs(k + 1)

\* the children that the forEach of retryFailedJobs retries: all the failed
\* ones, or the first maxJobs of them when maxJobs is not 0
RetriedJobs_All(maxJobs) == FailedJobs(1)

RetriedJobs(maxJobs) ==
  LET failed == FailedJobs(1)
  IN IF maxJobs = 0 THEN failed ELSE SubSeq(failed, 1, Min(maxJobs, Len(failed)))

\* Queue.retryFailedJobs(maxJobs, callback), at the value event of startedJobs:
\* _retryJob of every retried child writes child.val() into pendingJobs at
\* its _key, and the callback gets the number of retried children
RetryFailedJobs(maxJobs) ==
  /\ Len(retried) < MaxRetries
  /\ LET keys == Range(RetriedJobs(maxJobs))
     IN /\ pendingJobs' = [k \in Keys |->
                             IF k \in keys THEN startedJobs[k] ELSE pendingJobs[k]]
        /\ priority' = [k \in Keys |->
                          IF k \in keys THEN NoPriority ELSE priority[k]]
        /\ retryWrites' = retryWrites \cup keys
        /\ retried' = Append(retried, Len(RetriedJobs(maxJobs)))
  /\ callback' = NotCalled
  /\ UNCHANGED <<pushCount, workerVars, runnerVars, startedJobs, uncaught,
                 finished, consoleErrors>>

\* the completion of the addJob of _retryJob: ref.remove() of the child of
\* startedJobs
RetryWriteDone(k) ==
  /\ k \in retryWrites
  /\ retryWrites' = retryWrites \ {k}
  /\ startedJobs' = [startedJobs EXCEPT ![k] = NoJob]
  /\ callback' = NotCalled
  /\ UNCHANGED <<pendingJobs, priority, pushCount, workerVars, runnerVars, uncaught,
                 finished, consoleErrors, retried>>

\* the store rejects the addJob write of _retryJob: the child of pendingJobs
\* is not written, and the completion calls ref.remove(error).  remove takes
\* a function, and what it does with an error object is not said by the
\* store: it removes the child of startedJobs (removes), or it throws and
\* removes nothing (uncaught counts the errors that handleError throws)
RetryWriteFails(k, removes) ==
  /\ k \in retryWrites
  /\ retryWrites' = retryWrites \ {k}
  /\ pendingJobs' = [pendingJobs EXCEPT ![k] = NoJob]
  /\ UNCHANGED priority
  /\ startedJobs' = IF removes THEN [startedJobs EXCEPT ![k] = NoJob]
                    ELSE startedJobs
  /\ UNCHANGED uncaught
  /\ callback' = NotCalled
  /\ UNCHANGED <<pushCount, workerVars, runnerVars, finished, consoleErrors,
                 retried>>

\* Queue.removeAllPendingJobs(callback), which is also Queue.clear
RemoveAllPendingJobs_Both ==
  /\ pendingJobs' = [k \in Keys |-> NoJob]
  /\ UNCHANGED priority
  /\ startedJobs' = [k \in Keys |-> NoJob]
  /\ callback' = NotCalled
  /\ UNCHANGED <<pushCount, workerVars, runnerVars, uncaught, finished,
                 consoleErrors, retryWrites, retried>>

RemoveAllPendingJobs ==
  /\ pendingJobs' = [k \in Keys |-> NoJob]
  /\ UNCHANGED priority
  /\ callback' = NotCalled
  /\ UNCHANGED <<pushCount, workerVars, runnerVars, queueVars>>

\* Queue.removeAllStartedJobs(callback)
RemoveAllStartedJobs ==
  /\ startedJobs' = [k \in Keys |-> NoJob]
  /\ callback' = NotCalled
  /\ UNCHANGED <<pendingJobs, priority, pushCount, workerVars, runnerVars, uncaught,
                 finished, consoleErrors, retryWrites, retried>>

\* ------------------------------------------------------ specifications
InitCommon ==
  /\ pendingJobs = [k \in Keys |-> NoJob]
  /\ priority = [k \in Keys |-> NoPriority]
  /\ pushCount = 0
  /\ query = [w \in WorkerIds |-> FALSE]
  /\ subscriptions = [w \in WorkerIds |-> 0]
  /\ window = [w \in WorkerIds |-> NoKey]
  /\ nextSnapshot = [w \in WorkerIds |-> NoKey]
  /\ isBusy = [w \in WorkerIds |-> FALSE]
  /\ failureCount = [w \in WorkerIds |-> 0]
  /\ successCount = [w \in WorkerIds |-> 0]
  /\ idleOnce = [w \in WorkerIds |-> <<>>]
  /\ txs = {}
  /\ performing = {}
  /\ workers = <<>>
  /\ workerID = 0
  /\ shrinks = [w \in {} |-> 0]
  /\ trace = [w \in WorkerIds |-> <<>>]
  /\ callback = NotCalled
  /\ startedJobs = [k \in Keys |-> NoJob]
  /\ uncaught = 0
  /\ finished = {}
  /\ consoleErrors = 0
  /\ retryWrites = {}
  /\ retried = <<>>

\* standalone workers on one queue
Init ==
  /\ InitCommon
  /\ constructed = 1..NumWorkers

Next ==
  \/ \E w \in WorkerIds : Start(w)
  \/ \E w \in WorkerIds, hasCallback \in BOOLEAN : Stop(w, hasCallback)
  \/ AddJob
  \/ \E w \in WorkerIds : Notify(w)
  \/ \E t \in txs : TxCommit(t)
  \/ \E t \in txs : TxFail(t)
  \/ \E t \in txs : TxComplete(t, TRUE)
  \/ \E c \in performing, error \in {NoError, CallbackError} :
        FinishJob(c, error, TRUE)

Spec == Init /\ [][Next]_vars

\* standalone workers on a store that sends every listener each first child
\* of pendingJobs once
NextLive ==
  \/ \E w \in WorkerIds : Start(w)
  \/ \E w \in WorkerIds, hasCallback \in BOOLEAN : Stop(w, hasCallback)
  \/ AddJob
  \/ \E w \in WorkerIds : ChildAdded(w)
  \/ \E t \in txs : TxCommit(t)
  \/ \E t \in txs : TxFail(t)
  \/ \E t \in txs : TxComplete(t, TRUE)
  \/ \E c \in performing, error \in {NoError, CallbackError} :
        FinishJob(c, error, TRUE)

\* what the store and the job functions owe: the store sends the child_added
\* event, answers the transaction and calls onComplete, and performJob calls
\* its callback
Progress ==
  \/ \E w \in WorkerIds : ChildAdded(w)
  \/ \E t \in txs : TxCommit(t)
  \/ \E t \in txs : TxComplete(t, TRUE)
  \/ \E c \in performing, error \in {NoError, CallbackError} :
        FinishJob(c, error, TRUE)

\* no step of NextLive can be taken for ever (every step adds a job, an
\* event or a call, or uses one up), so that the fairness of Progress is the
\* fairness of each of its steps
SpecLive == Init /\ [][NextLive]_vars /\ WF_vars(Progress)

\* a Runner and the workers of its pool on one queue
InitRunner ==
  /\ InitCommon
  /\ constructed = {}

AddJobRunner == pushCount < RunnerMaxJobs /\ AddJob

NextRunner ==
  \/ \E n \in -1..MaxNumWorkers, hasCallback \in BOOLEAN :
        SetNumberOfWorkers(n, hasCallback)
  \/ \E howMany \in HowManyArgs, hasCallback \in BOOLEAN :
        IncrementWorkers(howMany, hasCallback)
  \/ \E howMany \in HowManyArgs, hasCallback \in BOOLEAN :
        DecrementWorkers(howMany, hasCallback)
  \/ \E hasCallback \in BOOLEAN : StopAllWorkers(hasCallback)
  \/ AddJobRunner
  \/ \E w \in WorkerIds : Notify(w)
  \/ \E t \in txs : TxCommit(t)
  \/ \E t \in txs : TxFail(t)
  \/ \E t \in txs : TxComplete(t, TRUE)
  \/ \E c \in performing, error \in {NoError, CallbackError} :
        FinishJob(c, error, TRUE)

SpecRunner == InitRunner /\ [][NextRunner]_vars

\* a Runner whose factory may return something that is no Worker
NextFactory ==
  \/ \E n \in -1..MaxNumWorkers, hasCallback \in BOOLEAN :
        SetNumberOfWorkers(n, hasCallback)
  \/ \E n \in 1..MaxNumWorkers, failAt \in 1..MaxNumWorkers :
        SetNumberOfWorkersThrows(n, failAt)
  \/ AddJobRunner
  \/ \E w \in WorkerIds : Notify(w)
  \/ \E t \in txs : TxCommit(t)
  \/ \E t \in txs : TxFail(t)
  \/ \E t \in txs : TxComplete(t, TRUE)
  \/ \E t \in txs : TxCompleteThrows(t)
  \/ \E c \in performing, error \in {NoError, CallbackError} :
        FinishJob(c, error, TRUE)

SpecFactory == InitRunner /\ [][NextFactory]_vars

\* a Queue with its started records, standalone workers whose job functions
\* may throw and may call the callback again, a store that may reject the
\* record writes, and retryFailedJobs
InitQueue ==
  /\ InitCommon
  /\ constructed = 1..QueueWorkers

AddJobQueue == pushCount < QueueMaxJobs /\ AddJob

RetryFailedJobsQueue(maxJobs) ==
  Len(retried) < QueueRetries /\ RetryFailedJobs(maxJobs)

NextQueue ==
  \/ \E w \in WorkerIds : Start(w)
  \/ \E w \in WorkerIds, hasCallback \in BOOLEAN : Stop(w, hasCallback)
  \/ AddJobQueue
  \/ \E w \in WorkerIds : Notify(w)
  \/ \E t \in txs : TxCommit(t)
  \/ \E t \in txs : TxFail(t)
  \/ \E t \in txs, recordOk \in BOOLEAN : TxComplete(t, recordOk)
  \/ \E c \in performing, error \in {NoError, CallbackError, Exception},
        recordOk \in BOOLEAN : FinishJob(c, error, recordOk)
  \/ \E c \in finished : FinishJobAgain(c)
  \/ \E maxJobs \in 0..QueueMaxJobs : RetryFailedJobsQueue(maxJobs)
  \/ \E k \in Keys : RetryWriteDone(k)
  \/ \E k \in Keys, removes \in BOOLEAN : RetryWriteFails(k, removes)
  \/ RemoveAllPendingJobs
  \/ RemoveAllStartedJobs

SpecQueue == InitQueue /\ [][NextQueue]_vars

\* a Queue with one worker and calls of retryFailedJobs that may overlap,
\* on a store that takes every write; no list is reset
NextRetryRace ==
  \/ \E w \in WorkerIds : Start(w)
  \/ AddJobQueue
  \/ \E w \in WorkerIds : Notify(w)
  \/ \E t \in txs : TxCommit(t)
  \/ \E t \in txs : TxComplete(t, TRUE)
  \/ \E c \in performing, error \in {NoError, CallbackError} :
        FinishJob(c, error, TRUE)
  \/ \E maxJobs \in 0..QueueMaxJobs : RetryFailedJobs(maxJobs)
  \/ \E k \in Keys : RetryWriteDone(k)

SpecRetryRace == InitQueue /\ [][NextRetryRace]_vars

\* the records that the listeners of setupWorker leave in startedJobs for the
\* job of key k: none, started, failed, succeeded, and failed, retried and
\* succeeded
StartedRecords(k) ==
  LET started == [NoJob EXCEPT !.my = k, !.key = k, !.startedAt = 1]
      failed == [started EXCEPT !.failedAt = 2,
                                !.error = ErrorToString(CallbackError)]
  IN {NoJob, started, failed, [started EXCEPT !.succeededAt = 2],
      [failed EXCEPT !.succeededAt = 3]}

\* a Queue whose jobs have all been claimed and have left their records in
\* startedJobs, with no worker, and the calls of retryFailedJobs,
\* removeAllPendingJobs and removeAllStartedJobs
InitRetry ==
  /\ pendingJobs = [k \in Keys |-> NoJob]
  /\ priority = [k \in Keys |-> NoPriority]
  /\ pushCount = Cardinality(Keys)
  /\ constructed = {}
  /\ query = [w \in WorkerIds |-> FALSE]
  /\ subscriptions = [w \in WorkerIds |-> 0]
  /\ window = [w \in WorkerIds |-> NoKey]
  /\ nextSnapshot = [w \in WorkerIds |-> NoKey]
  /\ isBusy = [w \in WorkerIds |-> FALSE]
  /\ failureCount = [w \in WorkerIds |-> 0]
  /\ successCount = [w \in WorkerIds |-> 0]
  /\ idleOnce = [w \in WorkerIds |-> <<>>]
  /\ txs = {}
  /\ performing = {}
  /\ workers = <<>>
  /\ workerID = 0
  /\ shrinks = [w \in {} |-> 0]
  /\ trace = [w \in WorkerIds |-> <<>>]
  /\ callback = NotCalled
  /\ startedJobs \in [Keys -> UNION {StartedRecords(k) : k \in Keys}]
  /\ \A k \in Keys : startedJobs[k] \in StartedRecords(k)
  /\ uncaught = 0
  /\ finished = {}
  /\ consoleErrors = 0
  /\ retryWrites = {}
  /\ retried = <<>>

NextRetry ==
  \/ \E maxJobs \in 0..Cardinality(Keys) : RetryFailedJobs(maxJobs)
  \/ \E k \in Keys : RetryWriteDone(k)
  \/ \E k \in Keys, removes \in BOOLEAN : RetryWriteFails(k, removes)
  \/ RemoveAllPendingJobs
  \/ RemoveAllStartedJobs

SpecRetry == InitRetry /\ [][NextRetry]_vars

\* the children of pendingJobs after numJobs calls of
\* pendingJobs.push().setWithPriority(job, p) and push(job) by the clients
PushedJobs(numJobs) ==
  [k \in Keys |-> IF k <= numJobs THEN [NoJob EXCEPT !.my = k] ELSE NoJob]

\* a queue that the clients have filled, with and without priorities, and
\* one worker that is started afterwards; nothing is added later
InitOrder ==
  /\ \E numJobs \in 1..MaxKeys :
        /\ pendingJobs = PushedJobs(numJobs)
        /\ pushCount = numJobs
        /\ priority \in [Keys -> NoPriority..MaxPriority]
        /\ \A k \in Keys : k > numJobs => priority[k] = NoPriority
  /\ constructed = {1}
  /\ query = [w \in WorkerIds |-> FALSE]
  /\ subscriptions = [w \in WorkerIds |-> 0]
  /\ window = [w \in WorkerIds |-> NoKey]
  /\ nextSnapshot = [w \in WorkerIds |-> NoKey]
  /\ isBusy = [w \in WorkerIds |-> FALSE]
  /\ failureCount = [w \in WorkerIds |-> 0]
  /\ successCount = [w \in WorkerIds |-> 0]
  /\ idleOnce = [w \in WorkerIds |-> <<>>]
  /\ txs = {}
  /\ performing = {}
  /\ workers = <<>>
  /\ workerID = 0
  /\ shrinks = [w \in {} |-> 0]
  /\ trace = [w \in WorkerIds |-> <<>>]
  /\ callback = NotCalled
  /\ startedJobs = [k \in Keys |-> NoJob]
  /\ uncaught = 0
  /\ finished = {}
  /\ consoleErrors = 0
  /\ retryWrites = {}
  /\ retried = <<>>

NextOrder ==
  \/ \E w \in WorkerIds : Start(w)
  \/ \E w \in WorkerIds, hasCallback \in BOOLEAN : Stop(w, hasCallback)
  \/ \E w \in WorkerIds : Notify(w)
  \/ \E t \in txs : TxCommit(t)
  \/ \E t \in txs : TxFail(t)
  \/ \E t \in txs : TxComplete(t, TRUE)
  \/ \E c \in performing, error \in {NoError, CallbackError} :
        FinishJob(c, error, TRUE)

SpecOrder == InitOrder /\ [][NextOrder]_vars

TypeOK ==
  /\ pushCount \in 0..Cardinality(Keys)
  /\ priority \in [Keys -> 0..MaxPriority]
  /\ subscriptions \in [WorkerIds -> 0..1]
  /\ window \in [WorkerIds -> Keys \cup {NoKey}]
  /\ constructed \subseteq WorkerIds
  /\ \A t \in txs : t.w \in constructed /\ t.key \in Keys
  /\ Range(workers) \subseteq constructed

\* ------------------------------------------------- reading the trace
\* the jobs started and not finished in the first i entries of tr
RunningAt(tr, i) ==
  {k \in Keys : Cardinality({m \in 1..i : tr[m] = Ev("start", k)}) >
                Cardinality({m \in 1..i : tr[m] = Ev("finish", k)})}

\* the jobs worker w is running: started and not finished
Running(w) == RunningAt(trace[w], Len(trace[w]))

RECURSIVE SumOver(_, _)
SumOver(S, k) ==
  IF S = {} THEN 0
  ELSE LET w == CHOOSE x \in S : TRUE
       IN CountOf(trace[w], "start", k) + SumOver(S \ {w}, k)

\* the number of start events emitted for key k by all workers
StartCount(k) == SumOver(WorkerIds, k)

\* the claims of key k that were won and whose onComplete is still to run
WonInFlight(k) == {t \in txs : t.key = k /\ t.res = "job"}

\* the workers that have issued a claim of key k which is over and was lost
\* (its onComplete found no job), seen while the lost reply is in flight
LostInFlight(k) == {t \in txs : t.key = k /\ t.res = "null"}

\* ------------------------------------------------------------ claims

\* C1: a pending job enqueued once is started by at most one worker in every
\* interleaving of claims; as soon as a claim has removed it from pendingJobs
\* exactly one worker has won it (counting the winner whose onComplete is
\* still to run), the job function is invoked once for each start, and every
\* other claim of it finds no job and emits no start.
C1_AtMostOneClaim ==
  \A k \in Keys :
    /\ StartCount(k) + Cardinality(WonInFlight(k)) <= 1
    /\ (k <= pushCount /\ pendingJobs[k] = NoJob)
         => StartCount(k) + Cardinality(WonInFlight(k)) = 1
    /\ Cardinality({c \in performing : c.job.key = k}) +
       Cardinality({w \in WorkerIds : CountOf(trace[w], "finish", k) > 0})
         = StartCount(k)

\* two workers claimed the same job: one started it, the other lost the race
C1_Witness ==
  \E k \in Keys, w1, w2 \in WorkerIds :
    /\ w1 # w2
    /\ CountOf(trace[w1], "start", k) = 1
    /\ \E t \in LostInFlight(k) : t.w = w2

\* C2: a worker never has two jobs running: in every state each worker has at
\* most one job started and not finished, so the finish of a job precedes the
\* start of the next, whatever notifications arrive in between.
C2_NoOverlap ==
  \A w \in WorkerIds :
    /\ Cardinality(Running(w)) <= 1
    /\ Count(trace[w], "start") - Count(trace[w], "finish") <= 1
    /\ Cardinality({c \in performing : c.w = w}) <= 1

\* a worker runs its second job after it finished the first one, and a
\* notification arrived while it was busy
C2_Witness ==
  \E w \in WorkerIds :
    /\ Count(trace[w], "start") = 2
    /\ Count(trace[w], "finish") = 1
    /\ \E i \in 1..Len(trace[w]) : trace[w][i].e = "finish" /\ i < Len(trace[w])
                                   /\ trace[w][i + 1].e = "start"

\* C3: after stop() was called on a worker the worker issues no new claim
\* transaction, also when a candidate was recorded in _nextSnapshot while the
\* worker was busy before the stop.  (This is the first half of the claim; the
\* second half is C3_NoStartAfterStop.)
C3_NoClaimAfterStop ==
  [][\A w \in WorkerIds :
       Count(trace[w], "stop") > 0 =>
         {t \in txs' : t.w = w /\ t.res = "sent"} \subseteq txs]_vars

\* the second half of C3: after stop() was called the worker emits no start
\* (the job that was running when stop was called has its start already)
C3_NoStartAfterStop ==
  [][\A w \in WorkerIds :
       Count(trace[w], "stop") > 0 =>
         Count(trace'[w], "start") = Count(trace[w], "start")]_vars

\* C4: once the callback given to stop has been called, the worker emits no
\* start and invokes the job function no more: no start follows onStopped in
\* the trace of a worker, and no claim of that worker is in flight.
C4_NoWorkAfterStopped ==
  \A w \in WorkerIds :
    /\ \A i, j \in 1..Len(trace[w]) :
         (i < j /\ trace[w][i].e = "onStopped") => trace[w][j].e # "start"
    /\ Count(trace[w], "onStopped") > 0 =>
         /\ {t \in txs : t.w = w} = {}
         /\ {c \in performing : c.w = w} = {}

\* the stop callback of a worker was called after the worker finished a job,
\* and a job is pending that nobody takes
C4_Witness ==
  \E w \in WorkerIds :
    /\ Count(trace[w], "onStopped") = 1
    /\ Count(trace[w], "finish") >= 1
    /\ FirstPending # NoKey

\* C5: when stop(callback) is called while a job is running, the callback is
\* not called before the finish of that job was emitted, and the job's outcome
\* (success or failure) is emitted right before its finish.
C5_StoppedAfterFinish ==
  \A w \in WorkerIds :
    \A i, j \in 1..Len(trace[w]) :
      (trace[w][i].e = "stop" /\ trace[w][j].e = "onStopped") =>
        \A k \in RunningAt(trace[w], i) :
          \E m \in 2..Len(trace[w]) :
            /\ i < m /\ m < j
            /\ trace[w][m] = Ev("finish", k)
            /\ trace[w][m - 1].e \in {"success", "failure"}
            /\ trace[w][m - 1].key = k

\* stop was called while a job was running and its callback has been called
C5_Witness ==
  \E w \in WorkerIds :
    \E i, j \in 1..Len(trace[w]) :
      /\ trace[w][i] = StopEv(TRUE)
      /\ RunningAt(trace[w], i) # {}
      /\ trace[w][j].e = "onStopped"

\* a step in which stop(callback) is called on w with a callback
StopCalled(w) ==
  /\ Len(trace'[w]) > Len(trace[w])
  /\ trace'[w][Len(trace[w]) + 1] = StopEv(TRUE)

\* the stop callback is called by the stop call itself
StoppedAtOnce(w) ==
  /\ Len(trace'[w]) = Len(trace[w]) + 2
  /\ trace'[w][Len(trace[w]) + 2] = Ev("onStopped", NoKey)

\* C6 as stated: when stop(callback) is called while the worker runs no job
\* (idle, watching, or claiming with the transaction in flight), the callback
\* is called at once, without waiting for any job.
C6_StoppedAtOnceUnlessRunning ==
  [][\A w \in WorkerIds :
       (StopCalled(w) /\ Running(w) = {}) => StoppedAtOnce(w)]_vars

\* C6 amended: when stop(callback) is called while the worker is not busy
\* (no claim in flight and no job running), the callback is called by the
\* stop call itself; a worker that is claiming is busy and defers it.
C6_StoppedAtOnceUnlessBusy ==
  [][\A w \in WorkerIds :
       (StopCalled(w) /\ ~isBusy[w]) => StoppedAtOnce(w)]_vars

\* stop(callback) was called on a watching worker that runs nothing, and the
\* callback was called
C6_Witness ==
  \E w \in WorkerIds :
    /\ Len(trace[w]) >= 2
    /\ trace[w][Len(trace[w]) - 1] = StopEv(TRUE)
    /\ trace[w][Len(trace[w])] = Ev("onStopped", NoKey)
    /\ ~isBusy[w]

\* the numWorkers arguments that reach setNumberOfWorkers
NumWorkersArgs == (0 - MaxNumWorkers)..(MaxWorkerID + MaxNumWorkers)

\* C7: setNumberOfWorkers(n) below the pool size removes exactly the
\* (size - n) first members of the pool, which are the earliest created, and
\* stops them; the n newest members stay in the pool in their order, are not
\* stopped and keep their subscription.
C7_ShrinkRemovesOldest ==
  [][\A n \in NumWorkersArgs, cb \in BOOLEAN :
       (SetNumberOfWorkers(n, cb) /\ Max(0, n) < Len(workers)) =>
         LET k == Len(workers) - Max(0, n)
         IN /\ workers' = SubSeq(workers, k + 1, Len(workers))
            /\ Len(workers') = Max(0, n)
            /\ \A i \in 1..k :
                 /\ ~query'[workers[i]]
                 /\ Count(trace'[workers[i]], "stop") =
                      Count(trace[workers[i]], "stop") + 1
                 /\ \A j \in (k + 1)..Len(workers) : workers[i] < workers[j]
            /\ \A w \in Range(workers') :
                 /\ query'[w]
                 /\ trace'[w] = trace[w]
                 /\ idleOnce'[w] = idleOnce[w]]_vars

\* a pool of workers 1 and 2 was shrunk to one worker: 1 was removed and
\* stopped, 2 stays and watches
C7_Witness ==
  /\ workers = <<2>>
  /\ 1 \in DOMAIN shrinks
  /\ shrinks[1].removedWorkers = <<1>>
  /\ query[2]
  /\ Count(trace[2], "stop") = 0

\* C8: the callback of a shrink is not called before the stop callback of
\* every removed worker was called, and no removed worker is running a job or
\* claiming one when it is called or later.
C8_CallbackAfterAllStopped ==
  \A id \in DOMAIN shrinks :
    shrinks[id].called > 0 =>
      \A w \in Range(shrinks[id].removedWorkers) :
        /\ Count(trace[w], "onStopped") >= 1
        /\ Running(w) = {}
        /\ {c \in performing : c.w = w} = {}

\* the callback of a shrink was called after a removed worker finished the job
\* it was running when it was stopped
C8_Witness ==
  \E id \in DOMAIN shrinks :
    /\ shrinks[id].called = 1
    /\ \E w \in Range(shrinks[id].removedWorkers) :
         \E i, j \in 1..Len(trace[w]) :
           /\ i < j
           /\ trace[w][i].e = "stop"
           /\ RunningAt(trace[w], i) # {}
           /\ trace[w][j].e = "finish"

\* C9: setNumberOfWorkers(n) above the pool size creates exactly (n - size)
\* workers with the next ids, starts each of them, appends them to the pool in
\* the order of creation, and calls the callback with exactly these workers in
\* the same step.
C9_GrowAppendsNew ==
  [][\A n \in NumWorkersArgs, cb \in BOOLEAN :
       (SetNumberOfWorkers(n, cb) /\ Max(0, n) > Len(workers)) =>
         LET d == Max(0, n) - Len(workers)
             new == [i \in 1..d |-> workerID + i]
         IN /\ workers' = workers \o new
            /\ Range(new) \cap constructed = {}
            /\ constructed' = constructed \cup Range(new)
            /\ workerID' = workerID + d
            /\ \A w \in Range(new) : query'[w] /\ trace'[w] = <<>>
            /\ callback' = IF cb THEN Called(new) ELSE NotCalled
            /\ pendingJobs' = pendingJobs /\ txs' = txs]_vars

\* a pool of one worker was grown by one: the new worker is the last member
\* and was passed to the callback
C9_Witness ==
  /\ workers = <<1, 2>>
  /\ callback = Called(<<2>>)
  /\ query[2]

\* C10: every setNumberOfWorkers(n) step (also through incrementWorkers,
\* decrementWorkers and stopAllWorkers) leaves a pool of max(0, n) workers;
\* the handling of the error of a pool member removes that worker and adds one
\* new worker, so that the size is the same; no other step changes the pool.
C10_PoolSize ==
  [][/\ \A n \in NumWorkersArgs, cb \in BOOLEAN :
          SetNumberOfWorkers(n, cb) => Len(workers') = Max(0, n)
     /\ \A t \in txs :
          (t.res = "error" /\ TxComplete(t, TRUE)) =>
            /\ Len(workers') = Len(workers)
            /\ t.w \in Range(workers) =>
                 /\ Range(workers) \ Range(workers') = {t.w}
                 /\ Range(workers') \ Range(workers) = {workerID + 1}
     /\ workers' # workers =>
          \/ \E n \in NumWorkersArgs, cb \in BOOLEAN : SetNumberOfWorkers(n, cb)
          \/ \E t \in txs : t.res = "error" /\ TxComplete(t, TRUE)]_vars

\* the only member of the pool had a store error and was replaced by worker 2
C10_Witness ==
  /\ workers = <<2>>
  /\ Count(trace[1], "error") = 1
  /\ query[2]

\* C11: when the claim of a pool member ends in a store error, the handling
\* of its error event leaves a pool of the same size, the errored worker is
\* no longer a member, a worker with a fresh id is created, started and made
\* a member, and stop is not called on the errored worker.
C11_ErrorReplacesWorker ==
  [][\A t \in txs :
       (t.res = "error" /\ t.w \in Range(workers) /\ TxComplete(t, TRUE)) =>
         /\ Len(workers') = Len(workers)
         /\ t.w \notin Range(workers')
         /\ Count(trace'[t.w], "error") = Count(trace[t.w], "error") + 1
         /\ Count(trace'[t.w], "stop") = Count(trace[t.w], "stop")
         /\ \E new \in Range(workers') :
              /\ new \notin constructed
              /\ new > workerID
              /\ query'[new]
              /\ trace'[new] = <<>>]_vars

\* worker 1 of a pool emitted error without being stopped; the pool holds the
\* new worker 2, which is watching and has done nothing yet
C11_Witness ==
  /\ Count(trace[1], "error") = 1
  /\ Count(trace[1], "stop") = 0
  /\ 1 \notin Range(workers)
  /\ 2 \in Range(workers)
  /\ query[2] /\ trace[2] = <<>>

\* C12 as stated: after the claim of a worker ended in a store error the
\* worker has emitted error and its subscription to pendingJobs is off, it has
\* no claim in flight and starts nothing more.
C12_ErrorStopsWatching ==
  \A w \in WorkerIds :
    Count(trace[w], "error") > 0 =>
      /\ ~query[w]
      /\ {t \in txs : t.w = w} = {}
      /\ trace[w][Len(trace[w])].e # "start"

\* the part of C12 that the program keeps: after its error event a worker
\* issues no claim and emits no start, whatever is enqueued or notified
C12_NoWorkAfterError ==
  [][\A w \in WorkerIds :
       Count(trace[w], "error") > 0 =>
         /\ {t \in txs' : t.w = w} \subseteq {t \in txs : t.w = w}
         /\ Count(trace'[w], "start") = Count(trace[w], "start")]_vars

\* a worker that emitted error was notified of a job enqueued afterwards
C12_Witness ==
  \E w \in WorkerIds :
    /\ Count(trace[w], "error") > 0
    /\ nextSnapshot[w] # NoKey
    /\ pendingJobs[nextSnapshot[w]] # NoJob

\* C13: when a job of a pool member finishes with a failure the worker emits
\* failure and finish for that job and no error, the pool is left as it is,
\* and the worker goes on: it claims the candidate recorded in _nextSnapshot
\* if there is one and is not busy otherwise.
C13_FailureIsNotFatal ==
  [][\A c \in performing :
       (\E error \in {CallbackError, Exception} : FinishJob(c, error, TRUE)) =>
         /\ Len(trace'[c.w]) >= Len(trace[c.w]) + 2
         /\ trace'[c.w][Len(trace[c.w]) + 1].e = "failure"
         /\ trace'[c.w][Len(trace[c.w]) + 1].key = c.job.key
         /\ trace'[c.w][Len(trace[c.w]) + 2] = Ev("finish", c.job.key)
         /\ Count(trace'[c.w], "error") = Count(trace[c.w], "error")
         /\ workers' = workers /\ workerID' = workerID
         /\ IF nextSnapshot[c.w] # NoKey
            THEN \E t \in txs' \ txs :
                   t.w = c.w /\ t.key = nextSnapshot[c.w] /\ t.res = "sent"
            ELSE ~isBusy'[c.w] /\ txs' = txs]_vars

\* a pool member whose job failed is still a member and has a new claim in
\* flight, and it never emitted error
C13_Witness ==
  \E w \in Range(workers) :
    /\ Count(trace[w], "failure") = 1
    /\ Count(trace[w], "error") = 0
    /\ trace[w][Len(trace[w])].e = "finish"
    /\ \E t \in txs : t.w = w /\ t.res = "sent"

\* C17: every idle event of a worker comes after a finish event of that
\* worker: a claim that is lost before the worker has finished any job ends
\* without idle.
C17_IdleAfterFinish ==
  \A w \in WorkerIds :
    \A i \in 1..Len(trace[w]) :
      trace[w][i].e = "idle" =>
        \E j \in 1..(i - 1) : trace[w][j].e = "finish"

\* one worker finished a job and emitted idle, while another worker that has
\* finished nothing lost the race for that job and is idle without the event
C17_Witness ==
  \E w1, w2 \in WorkerIds :
    /\ w1 # w2
    /\ Count(trace[w1], "idle") = 1
    /\ query[w2] /\ trace[w2] = <<>> /\ ~isBusy[w2]
    /\ pushCount = 1 /\ FirstPending = NoKey

C15_OnlyFirstCallCounts ==
  /\ \A w \in WorkerIds :
       /\ Count(trace[w], "success") + Count(trace[w], "failure")
            = Count(trace[w], "finish")
       /\ successCount[w] = Count(trace[w], "success")
       /\ failureCount[w] = Count(trace[w], "failure")
       /\ Count(trace[w], "start") =
            Count(trace[w], "finish") + Cardinality({c \in performing : c.w = w})
       /\ \A k \in Keys :
            CountOf(trace[w], "finish", k) <=
              Cardinality({c \in finished : c.w = w /\ c.job.key = k})
  /\ performing \cap finished = {}

\* the callback of a job that had finished was called once more
C15_Witness ==
  /\ consoleErrors = 1
  /\ \E c \in finished :
       /\ CountOf(trace[c.w], "finish", c.job.key) = 1
       /\ successCount[c.w] + failureCount[c.w] = 1

\* C16: when performJob throws before its callback was called, the job is
\* finished as a failure with the exception: failure with the exception as
\* its error and finish are emitted for the job, failureCount grows by one
\* and successCount stays, and the worker is no longer busy with the job: it
\* is not busy, or busy with the claim of the candidate of _nextSnapshot.
C16_ThrowIsFailure ==
  [][\A c \in performing, recordOk \in BOOLEAN :
       FinishJob(c, Exception, recordOk) =>
         /\ Len(trace'[c.w]) >= Len(trace[c.w]) + 2
         /\ trace'[c.w][Len(trace[c.w]) + 1] =
              EvError("failure", c.job.key, Exception)
         /\ trace'[c.w][Len(trace[c.w]) + 2] = Ev("finish", c.job.key)
         /\ failureCount'[c.w] = failureCount[c.w] + 1
         /\ successCount'[c.w] = successCount[c.w]
         /\ c \notin performing'
         /\ isBusy'[c.w] <=> nextSnapshot[c.w] # NoKey
         /\ isBusy'[c.w] =>
              \E t \in txs' \ txs : t.w = c.w /\ t.key = nextSnapshot[c.w]]_vars

\* the job function of a worker threw: the job has failed with the exception
\* and the worker is not busy
C16_Witness ==
  \E w \in WorkerIds, k \in Keys :
    /\ Len(trace[w]) >= 3
    /\ trace[w][Len(trace[w]) - 2] = EvError("failure", k, Exception)
    /\ trace[w][Len(trace[w]) - 1] = Ev("finish", k)
    /\ trace[w][Len(trace[w])] = Ev("idle", NoKey)
    /\ failureCount[w] = 1
    /\ ~isBusy[w]

\* C18: a retryFailedJobs call made when startedJobs holds one failed record
\* gives 1 to its callback and writes the record into pendingJobs at its key;
\* when the write completes, the record is removed from startedJobs, and the
\* job, if no worker has claimed it, is in pendingJobs at its key with the
\* payload it was enqueued with.
C18_RetryRoundTrip ==
  [][/\ \A maxJobs \in 0..QueueMaxJobs, k \in Keys :
          (/\ RetryFailedJobs(maxJobs)
           /\ startedJobs[k].failedAt # NoTime
           /\ startedJobs[k].succeededAt = NoTime
           /\ \A j \in Keys \ {k} : startedJobs[j].failedAt = NoTime) =>
            /\ retried' = Append(retried, 1)
            /\ pendingJobs'[k].my = k /\ pendingJobs'[k].key = k
            /\ k \in retryWrites'
     /\ \A k \in Keys :
          RetryWriteDone(k) =>
            /\ startedJobs'[k] = NoJob
            /\ retryWrites' = retryWrites \ {k}
            /\ pendingJobs[k] # NoJob =>
                 pendingJobs'[k].my = k /\ pendingJobs'[k].key = k]_vars

\* a job has failed and retryFailedJobs was called: its callback got 1, the
\* write is complete, and the job is in pendingJobs and not in startedJobs
C18_Witness ==
  \E w \in WorkerIds :
    /\ CountOf(trace[w], "finish", 1) = 1
    /\ failureCount[w] = 1
    /\ retried = <<1>>
    /\ retryWrites = {}
    /\ pendingJobs[1].my = 1 /\ pendingJobs[1].key = 1
    /\ startedJobs[1] = NoJob

\* C19: no child of pendingJobs has _startedAt, _failedAt or _error set, also
\* not a child written by retryFailedJobs.
C19_PendingHasNoMetadata ==
  \A k \in Keys :
    pendingJobs[k] # NoJob =>
      /\ pendingJobs[k].startedAt = NoTime
      /\ pendingJobs[k].failedAt = NoTime
      /\ pendingJobs[k].error = NoError

\* C20: no child of startedJobs has both _succeededAt and _failedAt set, also
\* not the record of a job that failed, was retried and then succeeded.
C20_NotSucceededAndFailed ==
  \A k \in Keys :
    ~(startedJobs[k].succeededAt # NoTime /\ startedJobs[k].failedAt # NoTime)

\* C27 as stated: incrementWorkers and decrementWorkers without howMany
\* change the pool by one worker (not below 0), and with howMany = k they
\* leave the pool that setNumberOfWorkers(size + k) and
\* setNumberOfWorkers(size - k) leave, for every number k.
C27_IncrementDecrement ==
  [][\A cb \in BOOLEAN :
       /\ IncrementWorkers(Omitted, cb) => Len(workers') = Len(workers) + 1
       /\ DecrementWorkers(Omitted, cb) => Len(workers') = Max(0, Len(workers) - 1)
       /\ \A k \in 0..MaxNumWorkers :
            /\ IncrementWorkers(Given(k), cb) => Len(workers') = Len(workers) + k
            /\ DecrementWorkers(Given(k), cb) =>
                 Len(workers') = Max(0, Len(workers) - k)]_vars

\* the part of C27 that the program keeps: the calls without howMany, and
\* the calls with a howMany that is not 0
C27_IncrementDecrementNonZero ==
  [][\A cb \in BOOLEAN :
       /\ IncrementWorkers(Omitted, cb) => Len(workers') = Len(workers) + 1
       /\ DecrementWorkers(Omitted, cb) => Len(workers') = Max(0, Len(workers) - 1)
       /\ \A k \in 1..MaxNumWorkers :
            /\ IncrementWorkers(Given(k), cb) => SetNumberOfWorkers(Len(workers) + k, cb)
            /\ DecrementWorkers(Given(k), cb) => SetNumberOfWorkers(Len(workers) - k, cb)]_vars

\* C28 (shrink part) as stated: the callback of a shrink is called once with
\* the removed workers when they have finished their current jobs: whenever
\* no removed worker is busy, has a claim in flight or runs a job, the
\* callback has been called.
C28_ShrinkCallbackCalled ==
  \A id \in DOMAIN shrinks :
    (/\ shrinks[id].hasCallback
     /\ \A w \in Range(shrinks[id].removedWorkers) :
          /\ ~isBusy[w]
          /\ {t \in txs : t.w = w} = {}
          /\ {c \in performing : c.w = w} = {})
      => shrinks[id].called = 1

\* the part of C28 that the program keeps: a call that does not shrink the
\* pool calls its callback in the same step, with the new workers (none when
\* the size stays), no other step calls a callback of a grow, and the
\* callback of a shrink is called at most once, with the removed workers.
C28_CallbackAtMostOnce ==
  [][/\ \A n \in NumWorkersArgs :
          (SetNumberOfWorkers(n, TRUE) /\ Max(0, n) >= Len(workers)) =>
            /\ callback'.called
            /\ Len(callback'.arg) = Max(0, n) - Len(workers)
            /\ Range(callback'.arg) = Range(workers') \ Range(workers)
     /\ \A id \in DOMAIN shrinks' :
          /\ shrinks'[id].called <= 1
          /\ (id \in DOMAIN shrinks /\ shrinks'[id].called > shrinks[id].called) =>
               callback' = Called(shrinks[id].removedWorkers)]_vars

\* C29: when the claim of a worker is lost (the transaction is complete and
\* found no job), the worker emits no start, no error, no success, failure or
\* finish, the candidate is given up, and the worker claims at once the
\* candidate that was notified during the attempt if there is one, and is not
\* busy and waits otherwise.
C29_LostRace ==
  [][\A t \in txs :
       (t.res = "null" /\ TxComplete(t, TRUE)) =>
         /\ \A e \in {"start", "error", "success", "failure", "finish"} :
              Count(trace'[t.w], e) = Count(trace[t.w], e)
         /\ t \notin txs'
         /\ performing' = performing
         /\ pendingJobs' = pendingJobs /\ startedJobs' = startedJobs
         /\ IF nextSnapshot[t.w] # NoKey
            THEN /\ isBusy'[t.w] /\ nextSnapshot'[t.w] = NoKey
                 /\ txs' \ txs = {[w |-> t.w, key |-> nextSnapshot[t.w],
                                   res |-> "sent", job |-> NoJob,
                                   previousJob |-> t.previousJob]}
            ELSE ~isBusy'[t.w] /\ txs' = txs \ {t}]_vars

\* a worker lost the race for a job that another worker started, and has
\* the claim of the candidate notified meanwhile in flight
C29_Witness ==
  \E w1, w2 \in WorkerIds, k1, k2 \in Keys :
    /\ w1 # w2 /\ k1 # k2
    /\ CountOf(trace[w1], "start", k1) = 1
    /\ Count(trace[w2], "start") = 0
    /\ \E t \in txs : t.w = w2 /\ t.key = k2 /\ t.res = "sent"
    /\ pendingJobs[k1] = NoJob /\ pendingJobs[k2] # NoJob

\* C21: in every reachable state every record of startedJobs has startedAt
\* set.  Stated for the states where the store took every write.
C21_StartedHasStartedAt ==
  uncaught = 0 =>
    \A k \in Keys : startedJobs[k] # NoJob => startedJobs[k].startedAt # NoTime

\* C22: when the write of a retried job into pendingJobs fails, the record
\* of the job in startedJobs is left unchanged.
C22_RetryKeepsOnFailure ==
  [][\A k \in Keys, removes \in BOOLEAN :
       RetryWriteFails(k, removes) => startedJobs'[k] = startedJobs[k]]_vars

\* C23: retryFailedJobs(maxJobs) retries, on one snapshot of startedJobs, the
\* first min(maxJobs, number of failed records) failed records in key order
\* (all of them when maxJobs is 0), where failed is failedAt set and
\* succeededAt not set; it writes their values into pendingJobs at their
\* keys, reports that count, writes no other child of pendingJobs and leaves
\* startedJobs as it is; the later completions remove only records that were
\* retried.
C23_RetryFailedJobs ==
  [][/\ \A maxJobs \in 0..Cardinality(Keys) :
          RetryFailedJobs(maxJobs) =>
            LET failed == {k \in Keys : /\ startedJobs[k] # NoJob
                                        /\ startedJobs[k].failedAt # NoTime
                                        /\ startedJobs[k].succeededAt = NoTime}
                n == IF maxJobs = 0 THEN Cardinality(failed)
                     ELSE Min(maxJobs, Cardinality(failed))
                keys == {k \in failed : Cardinality({j \in failed : j < k}) < n}
            IN /\ retried' = Append(retried, n)
               /\ retryWrites' = retryWrites \cup keys
               /\ \A k \in keys : pendingJobs'[k] = startedJobs[k]
               /\ \A k \in Keys \ keys : pendingJobs'[k] = pendingJobs[k]
               /\ startedJobs' = startedJobs
     /\ \A k \in Keys :
          (RetryWriteDone(k) \/ \E removes \in BOOLEAN : RetryWriteFails(k, removes)) =>
            \A j \in Keys : startedJobs'[j] # startedJobs[j] => j = k /\ k \in retryWrites]_vars

\* retryFailedJobs(1) has retried the first of two failed records, and the
\* second is still in startedJobs and not in pendingJobs
C23_Witness ==
  \E k1, k2 \in Keys :
    /\ k1 < k2
    /\ IsFailedJob(startedJobs[k1]) /\ IsFailedJob(startedJobs[k2])
    /\ retried = <<1>>
    /\ retryWrites = {k1}
    /\ pendingJobs[k1] = startedJobs[k1]
    /\ pendingJobs[k2] = NoJob

C25_EnqueueAddsOne ==
  [][AddJob =>
       LET key == pushCount + 1
           numChildren(list) == Cardinality({k \in Keys : list[k] # NoJob})
       IN /\ key \in Keys
          /\ pendingJobs[key] = NoJob /\ startedJobs[key] = NoJob
          /\ \A k \in Keys :
               (pendingJobs[k] # NoJob \/ startedJobs[k] # NoJob) => k < key
          /\ pendingJobs'[key] # NoJob
          /\ pendingJobs'[key].startedAt = NoTime
          /\ \A k \in Keys \ {key} : pendingJobs'[k] = pendingJobs[k]
          /\ startedJobs' = startedJobs
          /\ (numChildren(pendingJobs) = 0 /\ numChildren(startedJobs) = 0) =>
               (numChildren(pendingJobs') = 1 /\ numChildren(startedJobs') = 0)]_vars

\* the second job was added while the record of the first was in startedJobs
C25_Witness ==
  /\ pushCount = 2
  /\ pendingJobs[1] = NoJob /\ pendingJobs[2] # NoJob
  /\ startedJobs[1] # NoJob /\ startedJobs[2] = NoJob

\* C30: every write of the start, failure and success listeners sets
\* startedAt, failedAt and succeededAt to the server timestamp of the write,
\* also when the job carries a value for the property.
C30_ServerTimestamp ==
  [][/\ \A t \in txs :
          (t.res = "job" /\ TxComplete(t, TRUE)) =>
            LET k == IF t.job.key = NoKey THEN t.key ELSE t.job.key
            IN startedJobs'[k].startedAt = ServerTimestamp(startedJobs[k], t.job)
     /\ \A c \in performing :
          /\ (\E error \in {CallbackError, Exception} : FinishJob(c, error, TRUE)) =>
               startedJobs'[c.job.key].failedAt =
                 ServerTimestamp(startedJobs[c.job.key], c.job)
          /\ FinishJob(c, NoError, TRUE) =>
               startedJobs'[c.job.key].succeededAt =
                 ServerTimestamp(startedJobs[c.job.key], c.job)]_vars

\* C26: when all the jobs are in pendingJobs before the only worker is
\* started, the worker emits start for them in the order of the queue, by
\* priority (lower first, none before any) and then by key: the i-th start
\* is for the i-th job of that order.
C26_StartsInQueueOrder ==
  \A w \in constructed :
    \A i \in 1..Len(trace[w]) :
      trace[w][i].e = "start" =>
        Cardinality({k \in 1..pushCount : Before(k, trace[w][i].key)}) =
          Cardinality({m \in 1..(i - 1) : trace[w][m].e = "start"})

\* three jobs pushed with priorities 3, 1 and 2 have been started in the
\* order of the keys 2, 3, 1
C26_Witness ==
  /\ pushCount = 3
  /\ priority[1] = 3 /\ priority[2] = 1 /\ priority[3] = 2
  /\ SelectSeq(trace[1], LAMBDA x : x.e = "start") =
       <<Ev("start", 2), Ev("start", 3), Ev("start", 1)>>

\* C35: the error event of a worker that is not a member of the pool (removed
\* by a shrink while its claim was in flight) leaves the runner as it is: no
\* member is removed, no worker is created or started, and workerID stays.
C35_ErrorOutsidePool ==
  [][\A t \in txs :
       (t.res = "error" /\ t.w \notin Range(workers) /\ TxComplete(t, TRUE)) =>
         /\ workers' = workers
         /\ workerID' = workerID
         /\ constructed' = constructed
         /\ query' = query
         /\ shrinks' = shrinks
         /\ Count(trace'[t.w], "error") = Count(trace[t.w], "error") + 1]_vars

\* the only member of a pool was removed by a shrink while its claim was in
\* flight and then emitted error; the pool is empty and no worker was created
C35_Witness ==
  /\ workers = <<>>
  /\ workerID = 1
  /\ constructed = {1}
  /\ Count(trace[1], "stop") = 1
  /\ Count(trace[1], "error") = 1

\* C36: for every worker the events of a job come in the order start, one of
\* success and failure, finish, with no event of another job in between; idle
\* comes only directly after a finish among these events (the claims lost in
\* between emit nothing), and it is emitted only in a step that finds and
\* leaves _nextSnapshot empty and leaves the worker not busy.
C36_EventOrder ==
  [][\A w \in WorkerIds :
       LET s == SelectSeq(trace'[w], LAMBDA x : x.e \in {"start", "success", "failure",
                                                         "finish", "idle"})
       IN /\ \A i \in 1..Len(s) :
               /\ s[i].e = "start" =>
                    /\ i = 1 \/ s[i - 1].e \in {"finish", "idle"}
                    /\ i < Len(s) => /\ s[i + 1].e \in {"success", "failure"}
                                      /\ s[i + 1].key = s[i].key
               /\ s[i].e \in {"success", "failure"} =>
                    /\ i > 1 /\ s[i - 1] = Ev("start", s[i].key)
                    /\ i < Len(s) /\ s[i + 1] = Ev("finish", s[i].key)
               /\ s[i].e = "finish" =>
                    i > 2 /\ s[i - 1].e \in {"success", "failure"}
               /\ s[i].e = "idle" => i > 1 /\ s[i - 1].e = "finish"
          /\ Count(trace'[w], "idle") > Count(trace[w], "idle") =>
               /\ nextSnapshot[w] = NoKey /\ nextSnapshot'[w] = NoKey
               /\ ~isBusy'[w]]_vars

\* a worker has finished a job, claimed the candidate of its _nextSnapshot
\* and lost it: the idle event that follows comes after the lost claim
C36_Witness ==
  \E t \in txs :
    /\ t.res = "null"
    /\ t.previousJob # NoJob
    /\ nextSnapshot[t.w] = NoKey
    /\ trace[t.w][Len(trace[t.w])] = Ev("finish", t.previousJob.key)

C39_FailedCreateLeavesPool ==
  [][/\ \A n \in 1..MaxNumWorkers, failAt \in 1..MaxNumWorkers :
          SetNumberOfWorkersThrows(n, failAt) =>
            /\ workers' = workers
            /\ \A w \in constructed' \ constructed : ~query'[w]
     /\ \A t \in txs :
          TxCompleteThrows(t) =>
            /\ workers' = workers
            /\ \A w \in constructed' \ constructed : ~query'[w]]_vars

\* C38: start() on a worker that is watching adds no subscription and
\* changes nothing of the worker, the queue or the pool; a worker has one
\* subscription while _query is set and none otherwise, and it has at most
\* one claim in flight.
C38_StartIsIdempotent ==
  [][\A w \in WorkerIds :
       /\ (Start(w) /\ query[w]) =>
            /\ subscriptions' = subscriptions
            /\ UNCHANGED <<workerVars, runnerVars, queueVars, pendingJobs, pushCount>>
       /\ subscriptions'[w] = IF query'[w] THEN 1 ELSE 0
       /\ Cardinality({t \in txs' : t.w = w}) <= 1]_vars

\* a worker that was started is watching with a claim in flight and a
\* candidate notified meanwhile, where start() can be called again
C38_Witness ==
  \E w \in WorkerIds :
    /\ query[w] /\ subscriptions[w] = 1
    /\ Count(trace[w], "stop") = 0
    /\ \E t \in txs : t.w = w /\ t.res = "sent"
    /\ nextSnapshot[w] # NoKey

\* C33: once retryFailedJobs has retried a job, the job is at every moment
\* in pendingJobs, or held by a worker (its claim is won and not complete,
\* or it is running), or in startedJobs.
C33_NoJobLostByRetry ==
  (\E i \in 1..Len(retried) : retried[i] > 0) =>
    \A k \in 1..pushCount :
      \/ pendingJobs[k] # NoJob
      \/ \E t \in txs : t.res = "job" /\ t.key = k
      \/ \E c \in performing : c.job.key = k
      \/ startedJobs[k] # NoJob

Healthy(w) ==
  /\ w \in constructed
  /\ query[w]
  /\ Count(trace[w], "error") = 0

\* C31: every stop(onStopped) call on a worker is followed by the call of
\* onStopped, in whatever state the worker was when stop was called, unless
\* the store answers a transaction of the worker with an error.
C31_StopCallbackInvoked ==
  \A w \in WorkerIds :
    (Count(trace[w], "stop") = 1 /\ StopEv(TRUE) \in Range(trace[w]))
      ~> \/ Count(trace[w], "onStopped") = 1
         \/ Count(trace[w], "error") > 0

\* C32: while some worker is started, not stopped and without store error,
\* every job in pendingJobs is eventually started by a worker.
C32_NoLostWakeUp ==
  \A k \in 1..MaxJobs :
    (pendingJobs[k] # NoJob /\ \E w \in WorkerIds : Healthy(w))
      ~> \/ \E w \in WorkerIds : CountOf(trace[w], "start", k) > 0
         \/ \A w \in WorkerIds : ~Healthy(w)

\* a worker without store error that was never stopped has started job 1 and
\* then job 2 without an idle event in between: the event for job 2 came
\* while the worker was busy
C32_Witness ==
  \E w \in WorkerIds :
    /\ Healthy(w)
    /\ CountOf(trace[w], "start", 1) = 1
    /\ CountOf(trace[w], "start", 2) = 1
    /\ Count(trace[w], "idle") = 0
    /\ pendingJobs = [k \in Keys |-> NoJob]

====
